---- MODULE Spec2Model ----
(***************************************************************************)
(* SpendWise (src/streamlit.py): a Streamlit session that normalises an    *)
(* uploaded bank statement (parse_data), stores the retained spending rows *)
(* in st.session_state['df_spent'], and renders the Manage, Analyze and    *)
(* Predict pages from them.  Every user interaction is one rerun of main() *)
(* with the page chosen in the sidebar; one action models one rerun.       *)
(*                                                                         *)
(* Amounts are integers (currency units) or a float infinity; quotients    *)
(* that pandas or sklearn compute in floating point are kept exact as      *)
(* <<numerator, denominator>>.                                             *)
(***************************************************************************)
EXTENDS Integers, Sequences, FiniteSets, TLC

VARIABLES
    df_spent,       \* st.session_state['df_spent']: None or the retained rows
    salary,         \* st.session_state['salary']
    uploaded_file,  \* the file most recently handed to parse_data (NoFile before any)
    page,           \* page rendered by the last rerun
    msgs,           \* st.success / st.error / st.warning calls of the last rerun
    manage_view,    \* what show_manage_page rendered in the last rerun
    analyze_view,   \* what show_analyze_page rendered in the last rerun
    predict_view,   \* what show_predict_page rendered in the last rerun
    replaced        \* history: the last upload overwrote a stored, non-empty, different set

vars == <<df_spent, salary, uploaded_file, page, msgs, manage_view, analyze_view, predict_view,
          replaced>>

----------------------------------------------------------------------------
(* Bounds of the model. *)

\* longest statement uploaded in a session
MaxRows == 2
\* longest statement parse_data is checked on alone
MaxParseRows == 2
\* longest statement the Manage page is checked on
MaxTx == 4
\* longest statement the Predict page is checked on
MaxHist == 3

----------------------------------------------------------------------------
(* Generic helpers over sequences. *)

Range(s) == { s[i] : i \in 1..Len(s) }

SeqsUpTo(S, n) == UNION { [1..k -> S] : k \in 0..n }

\* An amount is a float: inf is 0 and v the number when it is finite, inf is 1
\* or -1 and v is 0 when it is plus or minus infinity.
Finite(v) == [inf |-> 0, v |-> v]
PosInf == [inf |-> 1, v |-> 0]
NegInf == [inf |-> -1, v |-> 0]

\* a > b and a >= b on floats
gt(a, b) == IF a.inf # 0 \/ b.inf # 0 THEN a.inf > b.inf ELSE a.v > b.v
ge(a, b) == gt(a, b) \/ a = b

\* a + b on floats above -inf
AddAmounts(a, b) == IF a.inf = 1 \/ b.inf = 1 THEN PosInf ELSE Finite(a.v + b.v)

\* Series.sum() of the Amount column
RECURSIVE SumAmount(_)
SumAmount(rows) ==
    IF rows = <<>> THEN Finite(0)
    ELSE AddAmounts(Head(rows).Amount, SumAmount(Tail(rows)))

\* Series.unique(): distinct values in order of first occurrence
RECURSIVE Unique(_)
Unique(s) ==
    IF s = <<>> THEN <<>>
    ELSE LET rest == Unique(SubSeq(s, 1, Len(s) - 1))
             x    == s[Len(s)]
         IN  IF x \in Range(rest) THEN rest ELSE Append(rest, x)

\* the increasing enumeration of a finite set of integers
RECURSIVE SortedInts(_)
SortedInts(S) ==
    IF S = {} THEN <<>>
    ELSE LET lo == CHOOSE x \in S : \A y \in S : x <= y
         IN  <<lo>> \o SortedInts(S \ {lo})

Reverse(s) == [i \in 1..Len(s) |-> s[Len(s) + 1 - i]]

Max2(a, b) == IF a >= b THEN a ELSE b
Min2(a, b) == IF a <= b THEN a ELSE b

----------------------------------------------------------------------------
(* Cells of an uploaded CSV and their coercion.                            *)
(* A Date cell is the text of an ISO date (iso = TRUE, with its fields) or *)
(* some other text; an Amount cell is a decimal literal, the text of an    *)
(* infinity (inf, -inf, Infinity, 1e999) or other text; a                  *)
(* Category cell is its text, a sequence of characters, empty when blank.  *)

NaT == <<0, 0, 0>>
NaNAmount == [nan |-> TRUE, x |-> Finite(0)]
\* float NaN in a Category cell: no text equals it (a text has one character per
\* element)
NaNCategory == <<"NaN">>

IsLeap(y) == (y % 4 = 0 /\ y % 100 # 0) \/ y % 400 = 0

DaysInMonth(y, m) ==
    IF m = 2 THEN (IF IsLeap(y) THEN 29 ELSE 28)
    ELSE IF m \in {4, 6, 9, 11} THEN 30 ELSE 31

\* pd.to_datetime(cell, errors='coerce')
to_datetime(cell) ==
    IF cell.iso /\ cell.m \in 1..12 /\ cell.d >= 1 /\ cell.d <= DaysInMonth(cell.y, cell.m)
    THEN <<cell.y, cell.m, cell.d>>
    ELSE NaT

\* pd.to_numeric(cell, errors='coerce'): the number, plus or minus infinity, or NaN
to_numeric(cell) ==
    IF ~cell.numeric THEN NaNAmount
    ELSE IF cell.inf THEN [nan |-> FALSE, x |-> IF cell.v > 0 THEN PosInf ELSE NegInf]
    ELSE [nan |-> FALSE, x |-> Finite(cell.v)]


MonthNames ==
    <<"January", "February", "March", "April", "May", "June", "July",
      "August", "September", "October", "November", "December">>

\* date.strftime('%B')
strftime_B(date) == MonthNames[date[2]]

get_week_of_month(date) == (date[3] - 1) \div 7 + 1

\* A text that the code takes apart or compares (a file name, a column label, a
\* Category cell) is the sequence of its characters.  A character that a string
\* of this language cannot hold is written as its escape (\x0b, \x60, \u2000).

\* the characters U+0020 .. U+007E in code point order
Printable ==
    <<" ", "!", "\"", "#", "$", "%", "&", "'", "(", ")", "*", "+", ",", "-", ".", "/",
      "0", "1", "2", "3", "4", "5", "6", "7", "8", "9", ":", ";", "<", "=", ">", "?",
      "@", "A", "B", "C", "D", "E", "F", "G", "H", "I", "J", "K", "L", "M", "N", "O",
      "P", "Q", "R", "S", "T", "U", "V", "W", "X", "Y", "Z", "[", "\\", "]", "^", "_",
      "\\x60", "a", "b", "c", "d", "e", "f", "g", "h", "i", "j", "k", "l", "m", "n", "o",
      "p", "q", "r", "s", "t", "u", "v", "w", "x", "y", "z", "{", "|", "}", "~">>

\* the other characters str.isspace() holds of, each with its code point
OtherWhitespace ==
    <<<<"\t", 9>>, <<"\n", 10>>, <<"\\x0b", 11>>, <<"\f", 12>>, <<"\r", 13>>,
      <<"\\x1c", 28>>, <<"\\x1d", 29>>, <<"\\x1e", 30>>, <<"\\x1f", 31>>, <<"\\x85", 133>>,
      <<"\\xa0", 160>>, <<"\\u1680", 5760>>, <<"\\u2000", 8192>>, <<"\\u2001", 8193>>, <<"\\u2002", 8194>>,
      <<"\\u2003", 8195>>, <<"\\u2004", 8196>>, <<"\\u2005", 8197>>, <<"\\u2006", 8198>>, <<"\\u2007", 8199>>,
      <<"\\u2008", 8200>>, <<"\\u2009", 8201>>, <<"\\u200a", 8202>>, <<"\\u2028", 8232>>, <<"\\u2029", 8233>>,
      <<"\\u202f", 8239>>, <<"\\u205f", 8287>>, <<"\\u3000", 12288>>>>

\* the characters str.strip() removes
Whitespace == {" "} \cup { OtherWhitespace[i][1] : i \in 1..Len(OtherWhitespace) }

\* ord(c)
ord(c) ==
    IF \E i \in 1..Len(Printable) : Printable[i] = c
    THEN 31 + (CHOOSE i \in 1..Len(Printable) : Printable[i] = c)
    ELSE OtherWhitespace[CHOOSE i \in 1..Len(OtherWhitespace) : OtherWhitespace[i][1] = c][2]

\* a < b on str: the first differing character decides, else the length
str_lt(a, b) ==
    LET diff == { i \in 1..Min2(Len(a), Len(b)) : a[i] # b[i] }
    IN  IF diff = {} THEN Len(a) < Len(b)
        ELSE LET k == CHOOSE i \in diff : \A j \in diff : i <= j
             IN  ord(a[k]) < ord(b[k])

\* the increasing enumeration of a finite set of texts
RECURSIVE SortedTexts(_)
SortedTexts(S) ==
    IF S = {} THEN <<>>
    ELSE LET lo == CHOOSE x \in S : \A y \in S : x = y \/ str_lt(x, y)
         IN  <<lo>> \o SortedTexts(S \ {lo})

Digits == <<"0", "1", "2", "3", "4", "5", "6", "7", "8", "9">>

\* str(n) for n >= 0
RECURSIVE str_int(_)
str_int(n) ==
    IF n < 10 THEN <<Digits[n + 1]>>
    ELSE str_int(n \div 10) \o <<Digits[(n % 10) + 1]>>

\* the cell texts pd.read_csv reads as NaN (its default na_values)
NaValues ==
    { <<>>,
      <<"#", "N", "/", "A">>,
      <<"#", "N", "/", "A", " ", "N", "/", "A">>,
      <<"#", "N", "A">>,
      <<"-", "1", ".", "#", "I", "N", "D">>,
      <<"-", "1", ".", "#", "Q", "N", "A", "N">>,
      <<"-", "N", "a", "N">>,
      <<"-", "n", "a", "n">>,
      <<"1", ".", "#", "I", "N", "D">>,
      <<"1", ".", "#", "Q", "N", "A", "N">>,
      <<"<", "N", "A", ">">>,
      <<"N", "/", "A">>,
      <<"N", "A">>,
      <<"N", "U", "L", "L">>,
      <<"N", "a", "N">>,
      <<"N", "o", "n", "e">>,
      <<"n", "/", "a">>,
      <<"n", "a", "n">>,
      <<"n", "u", "l", "l">> }

\* pd.read_csv on a Category cell.  The statements of the model name their
\* categories by text: a column of number literals only would be read as numbers.
read_category(cell) == IF cell \in NaValues THEN NaNCategory ELSE cell

UpperCase ==
    <<"A", "B", "C", "D", "E", "F", "G", "H", "I", "J", "K", "L", "M",
      "N", "O", "P", "Q", "R", "S", "T", "U", "V", "W", "X", "Y", "Z">>
LowerCase ==
    <<"a", "b", "c", "d", "e", "f", "g", "h", "i", "j", "k", "l", "m",
      "n", "o", "p", "q", "r", "s", "t", "u", "v", "w", "x", "y", "z">>

\* str.lower() of one character: A-Z go to a-z, every other character stays
lower_char(c) ==
    IF \E i \in 1..Len(UpperCase) : UpperCase[i] = c
    THEN LowerCase[CHOOSE i \in 1..Len(UpperCase) : UpperCase[i] = c]
    ELSE c

\* str.lower()
lower(s) == [i \in 1..Len(s) |-> lower_char(s[i])]

\* str.split('.')[-1]: the characters after the last dot, all of them without a dot
last_part(s) ==
    LET dots == { i \in 1..Len(s) : s[i] = "." }
        cut == IF dots = {} THEN 0 ELSE CHOOSE i \in dots : \A j \in dots : j <= i
    IN  SubSeq(s, cut + 1, Len(s))

\* str.strip(): what lies between the first and the last character that is not
\* whitespace, these included
strip(s) ==
    LET kept == { i \in 1..Len(s) : s[i] \notin Whitespace }
    IN  IF kept = {} THEN <<>>
        ELSE SubSeq(s, CHOOSE i \in kept : \A j \in kept : i <= j,
                       CHOOSE i \in kept : \A j \in kept : j <= i)

\* pd.read_csv names a column whose header cell is empty by its 0-based position
Unnamed(i) == <<"U", "n", "n", "a", "m", "e", "d", ":", " ">> \o str_int(i)

\* a dict of counts per label, absent labels counting 0
Count(counts, col) == IF col \in DOMAIN counts THEN counts[col] ELSE 0
Put(counts, col, n) ==
    [c \in DOMAIN counts \cup {col} |-> IF c = col THEN n ELSE counts[c]]

\* pd.read_csv renames a repeated label: old_col.1, old_col.2, ... skipping the
\* labels the header already has
RECURSIVE dedup_name(_, _, _, _, _)
dedup_name(old_col, col, cur_count, counts, this_header) ==
    IF cur_count = 0 THEN [col |-> col, counts |-> counts]
    ELSE LET counts1 == Put(counts, old_col, cur_count + 1)
             col1 == old_col \o <<".">> \o str_int(cur_count)
         IN  IF col1 \in Range(this_header)
             THEN dedup_name(old_col, col1, cur_count + 1, counts1, this_header)
             ELSE dedup_name(old_col, col1, Count(counts1, col1), counts1, this_header)

RECURSIVE dedup_names(_, _, _)
dedup_names(this_header, order, counts) ==
    IF order = <<>> THEN this_header
    ELSE LET i == Head(order)
             r == dedup_name(this_header[i], this_header[i],
                             Count(counts, this_header[i]), counts, this_header)
         IN  dedup_names([this_header EXCEPT ![i] = r.col], Tail(order),
                         Put(r.counts, r.col, 1))

\* line 40: the column labels pd.read_csv gives for the header cells: named
\* columns are settled before unnamed ones
read_csv_columns(header) ==
    LET unnamed == { i \in 1..Len(header) : header[i] = <<>> }
        this_header == [i \in 1..Len(header) |->
                           IF i \in unnamed THEN Unnamed(i - 1) ELSE header[i]]
    IN  dedup_names(this_header,
                    SortedInts((1..Len(header)) \ unnamed) \o SortedInts(unnamed),
                    <<>>)

\* line 46: df.columns = [col.strip() for col in df.columns]
Columns(header) ==
    LET cols == read_csv_columns(header)
    IN  [i \in 1..Len(cols) |-> strip(cols[i])]

\* the positions of the columns df[col] selects, given df.columns
ColumnsNamed(columns, col) == { i \in 1..Len(columns) : columns[i] = col }

\* df[col] when one column has the label: its position
ColumnOf(columns, col) == CHOOSE i \in ColumnsNamed(columns, col) : TRUE

----------------------------------------------------------------------------
(* parse_data *)

None == [none |-> TRUE, rows |-> <<>>]
Frame(rows) == [none |-> FALSE, rows |-> rows]

DateLabel == <<"D", "a", "t", "e">>
AmountLabel == <<"A", "m", "o", "u", "n", "t">>
CategoryLabel == <<"C", "a", "t", "e", "g", "o", "r", "y">>
RequiredColumns == {DateLabel, AmountLabel, CategoryLabel}

Savings == <<"S", "a", "v", "i", "n", "g", "s">>
Income == <<"I", "n", "c", "o", "m", "e">>
ReservedCategories == {Savings, Income}

\* line 49: df.dropna(subset=['Date', 'Amount'])
dropna(rows) == SelectSeq(rows, LAMBDA r : r.Date # NaT /\ ~r.Amount.nan)

\* lines 51-54: the derived columns
WithDerived(r) ==
    [Date |-> r.Date, Amount |-> r.Amount.x, Category |-> r.Category,
     Year |-> r.Date[1], Month |-> r.Date[2], MonthName |-> strftime_B(r.Date),
     WeekOfMonth |-> get_week_of_month(r.Date)]

\* line 56: df[df['Amount'] > 0]
PositiveAmount(r) == gt(r.Amount, Finite(0))

\* line 57 with 'Income' left out of the list
NotSavingsOnly(r) == r.Category # Savings

\* line 57: ~df_spent['Category'].isin(['Savings', 'Income'])
NotReserved(r) == r.Category \notin ReservedCategories

\* lines 47-59 on the rows of a frame in which each of the three labels selects
\* one column
NormalizeRows(rows, columns) ==
    LET di == ColumnOf(columns, DateLabel)
        ai == ColumnOf(columns, AmountLabel)
        ci == ColumnOf(columns, CategoryLabel)
        coerced == [i \in 1..Len(rows) |->
                       [Date |-> to_datetime(rows[i][di]),
                        Amount |-> to_numeric(rows[i][ai]),
                        Category |-> read_category(rows[i][ci])]]
        kept == dropna(coerced)
        df == [i \in 1..Len(kept) |-> WithDerived(kept[i])]
    IN  SelectSeq(SelectSeq(df, PositiveAmount), NotReserved)

\* lines 46-59 for a CSV in which each of the three labels selects one column
Normalize(file) == NormalizeRows(file.rows, Columns(file.header))

\* line 35: uploaded_file.name.split('.')[-1].lower()
FileType(file) == lower(last_part(file.name))

\* line 38: the file type that is read
CsvType == <<"c", "s", "v">>

\* line 40: pd.read_csv raises EmptyDataError on a file without a header line
NoColumns(file) == file.header = <<>>

\* df['Date'], df['Amount'] or df_spent['Category'] raises KeyError
MissingColumn(columns) ==
    \E col \in RequiredColumns : ColumnsNamed(columns, col) = {}

\* more than one column has a required label after line 46: df[col] is then a
\* DataFrame, on which pd.to_datetime (line 47) and pd.to_numeric (line 48)
\* raise, as does the boolean selection of line 57
DuplicatedColumn(columns) ==
    \E col \in RequiredColumns : Cardinality(ColumnsNamed(columns, col)) > 1

\* parse_data whose except branch returns an empty frame instead of None
parse_data_empty_on_error(file) ==
    LET columns == Columns(file.header)
    IN  IF FileType(file) # CsvType
        THEN [df |-> None, msgs |-> <<"unsupported_file_type">>]
        ELSE IF NoColumns(file)
        THEN [df |-> Frame(<<>>), msgs |-> <<>>]
        ELSE IF MissingColumn(columns) \/ DuplicatedColumn(columns)
        THEN [df |-> Frame(<<>>), msgs |-> <<"csv_loaded">>]
        ELSE [df |-> Frame(NormalizeRows(file.rows, columns)), msgs |-> <<"csv_loaded">>]

\* parse_data(uploaded_file): the returned frame and the messages it emits
parse_data(file) ==
    LET columns == Columns(file.header)
    IN  IF FileType(file) # CsvType
        THEN [df |-> None, msgs |-> <<"unsupported_file_type">>]
        ELSE IF NoColumns(file)
        THEN [df |-> None, msgs |-> <<"error_processing_file">>]
        ELSE IF MissingColumn(columns) \/ DuplicatedColumn(columns)
        THEN [df |-> None, msgs |-> <<"csv_loaded", "error_processing_file">>]
        ELSE [df |-> Frame(NormalizeRows(file.rows, columns)), msgs |-> <<"csv_loaded">>]

----------------------------------------------------------------------------
(* The statements uploaded in the model. *)

DateCell(y, m, d) == [iso |-> TRUE, y |-> y, m |-> m, d |-> d]
TextDate == [iso |-> FALSE, y |-> 0, m |-> 0, d |-> 0]
Num(v) == [numeric |-> TRUE, inf |-> FALSE, v |-> v]
\* inf (sign 1) or -inf (sign -1)
InfAmount(sign) == [numeric |-> TRUE, inf |-> TRUE, v |-> sign]
TextAmount == [numeric |-> FALSE, inf |-> FALSE, v |-> 0]

\* the categories tips_mapping has a tip for (lines 92-98), and two it has none for
Groceries == <<"G", "r", "o", "c", "e", "r", "i", "e", "s">>
Restaurants == <<"R", "e", "s", "t", "a", "u", "r", "a", "n", "t", "s">>
Transport == <<"T", "r", "a", "n", "s", "p", "o", "r", "t">>
Shopping == <<"S", "h", "o", "p", "p", "i", "n", "g">>
Entertainment == <<"E", "n", "t", "e", "r", "t", "a", "i", "n", "m", "e", "n", "t">>
Utilities == <<"U", "t", "i", "l", "i", "t", "i", "e", "s">>
Rent == <<"R", "e", "n", "t">>
Travel == <<"T", "r", "a", "v", "e", "l">>
NotAvailable == <<"N", "/", "A">>
BlankCell == <<>>

UploadRows ==
    { <<DateCell(2024, 3, 5), Num(50), Groceries>>,
      <<DateCell(2023, 1, 15), Num(30), BlankCell>>,
      <<DateCell(2024, 3, 10), Num(20), Income>>,
      <<DateCell(2024, 3, 15), Num(-20), Rent>> }

\* Date,Amount,Category
PlainHeader == <<DateLabel, AmountLabel, CategoryLabel>>
\* the same labels padded with blanks, tabs and a no-break space
PaddedHeader ==
    << <<" ", "\t">> \o DateLabel, AmountLabel \o <<"\\xa0">>,
       <<" ">> \o CategoryLabel \o <<"\t", " ">> >>

BadHeaders ==
    { <<<<"W", "h", "e", "n">>, AmountLabel, CategoryLabel>>,
      <<DateLabel, <<"V", "a", "l", "u", "e">>, CategoryLabel>>,
      <<DateLabel, AmountLabel, <<"T", "y", "p", "e">>>> }

\* "Date, Date,Amount,Category": two columns are labelled Date once stripped
TwiceDateHeader == <<DateLabel, <<" ">> \o DateLabel, AmountLabel, CategoryLabel>>
\* "Date,Date,Amount,Category": pd.read_csv labels the second column Date.1
RepeatedDateHeader == <<DateLabel, DateLabel, AmountLabel, CategoryLabel>>

\* a row of a statement with a second date column, of unparsable text
WithSecondDate(r) == <<r[1], TextDate, r[2], r[3]>>


\* bank.csv, b.24.CSV, bank.Csv, bank.pdf, bank.Pdf
CsvName == <<"b", "a", "n", "k", ".", "c", "s", "v">>
UpperName == <<"b", ".", "2", "4", ".", "C", "S", "V">>
MixedName == <<"b", "a", "n", "k", ".", "C", "s", "v">>
PdfName == <<"b", "a", "n", "k", ".", "p", "d", "f">>
MixedPdfName == <<"b", "a", "n", "k", ".", "P", "d", "f">>

\* the statements uploaded under a padded header: empty or one row
ShortStatements == { <<>> } \cup { <<r>> : r \in UploadRows }

\* the statements uploaded under a rejected header or file type: empty or one
\* row of spending
SpendingStatement == <<DateCell(2024, 3, 5), Num(50), Groceries>>
RejectedStatements == { <<>>, <<SpendingStatement>> }

\* a statement of two months with an infinite amount, a zero amount and a
\* Savings row
InfFile ==
    [name |-> CsvName, header |-> PlainHeader,
     rows |-> << <<DateCell(2024, 3, 5), Num(50), Groceries>>,
                 <<DateCell(2024, 3, 6), Num(0), Groceries>>,
                 <<DateCell(2024, 3, 7), Num(50), Savings>>,
                 <<DateCell(2023, 1, 15), InfAmount(1), Rent>> >>]

GoodFiles ==
    [name : {CsvName}, header : {PlainHeader}, rows : SeqsUpTo(UploadRows, MaxRows)]
    \cup [name : {MixedName}, header : {PaddedHeader}, rows : ShortStatements]
    \cup {InfFile}

\* a file without a header line
EmptyFile == [name |-> CsvName, header |-> <<>>, rows |-> <<>>]

BadFiles ==
    [name : {CsvName}, header : BadHeaders, rows : RejectedStatements]
    \cup [name : {CsvName}, header : {TwiceDateHeader},
          rows : { <<>>, <<WithSecondDate(SpendingStatement)>> }]
    \cup [name : {PdfName}, header : {PlainHeader}, rows : RejectedStatements]
    \cup {EmptyFile}

Files == GoodFiles \cup BadFiles

NoFile == [name |-> <<>>, header |-> <<>>, rows |-> <<>>]

Salaries == {0, 60}

----------------------------------------------------------------------------
(* get_date_filters *)

\* sorted(df['Year'].unique(), reverse=True)
unique_years(rows) == Reverse(SortedInts({ r.Year : r \in Range(rows) }))

InYear(rows, year) == SelectSeq(rows, LAMBDA r : r.Year = year)

\* df[df['Year'] == selected_year]['MonthName'].unique()
months_in_year(rows, year) ==
    LET sel == InYear(rows, year)
    IN  Unique([i \in 1..Len(sel) |-> sel[i].MonthName])

\* lines 76 and 81: the rows of the selected scope; month_name is "" for Yearly
FilterScope(rows, view_type, year, month_name) ==
    IF view_type = "Monthly"
    THEN SelectSeq(rows, LAMBDA r : r.Year = year /\ r.MonthName = month_name)
    ELSE InYear(rows, year)

\* the scopes the radio button and the two select boxes offer (lines 71, 74, 80)
Scopes(rows) ==
    UNION { { [view_type |-> "Monthly", year |-> y, month |-> m] :
                  m \in Range(months_in_year(rows, y)) }
            \cup { [view_type |-> "Yearly", year |-> y, month |-> ""] } :
            y \in Range(unique_years(rows)) }

----------------------------------------------------------------------------
(* Aggregation by category: groupby('Category')['Amount'].sum() *)

\* the group keys: the categories present, ascending; NaN keys are dropped
GroupKeys(rows) == SortedTexts({ r.Category : r \in Range(rows) } \ {NaNCategory})

CategoryTotal(rows, c) == SumAmount(SelectSeq(rows, LAMBDA r : r.Category = c))

groupby_category_sum(rows) ==
    LET keys == GroupKeys(rows)
    IN  [i \in 1..Len(keys) |-> [Category |-> keys[i], Amount |-> CategoryTotal(rows, keys[i])]]

\* the results sort_values(ascending=False) may give: positions of the grouped
\* rows in descending order of Amount.  The default sort kind is quicksort,
\* which is not stable, so rows with equal Amount may come in either order.
DescendingOrders(grouped) ==
    { p \in [1..Len(grouped) -> 1..Len(grouped)] :
        /\ \A i, j \in 1..Len(grouped) : i # j => p[i] # p[j]
        /\ \A i \in 1..(Len(grouped) - 1) : ge(grouped[p[i]].Amount, grouped[p[i + 1]].Amount) }

\* Series.head(n)
head(s, n) == SubSeq(s, 1, Min2(n, Len(s)))

----------------------------------------------------------------------------
(* generate_contextual_tip *)

\* line 100; the text has one character outside ASCII, U+2014 (em dash), which
\* a string of this language cannot hold: it is written as its escape \u2014
GenericTip == "Review recurring small expenses\\u2014they add up!"

tips_mapping(c) ==
    CASE c = Groceries -> "Try meal planning and buying in bulk."
      [] c = Restaurants -> "Consider cooking at home 3-4 times a week."
      [] c = Transport -> "Use public transportation or carpool."
      [] c = Shopping -> "Apply the 30-day rule before purchases."
      [] c = Entertainment -> "Seek free or low-cost entertainment."
      [] c = Utilities -> "Be mindful of energy use and unplug devices."
      [] c = Rent -> "Reduce flexible spending to offset rent costs."
      [] OTHER -> GenericTip

\* the tip for the scope's rows, given the order the sort of line 87 produced
generate_contextual_tip(df_filtered, order) ==
    LET grouped == groupby_category_sum(df_filtered)
        category_spending == [k \in 1..Len(grouped) |-> grouped[order[k]]]
        top == head(category_spending, 2)
        top_categories == [k \in 1..Len(top) |-> top[k].Category]
    IN  IF df_filtered = <<>>
        THEN [kind |-> "no_data", top_categories |-> <<>>, advice |-> ""]
        ELSE IF category_spending = <<>>
        THEN [kind |-> "start_categorizing", top_categories |-> <<>>, advice |-> ""]
        ELSE [kind |-> "focus", top_categories |-> top_categories,
              advice |-> tips_mapping(top_categories[1])]

----------------------------------------------------------------------------
(* What a page shows.  A page that was not rendered in the last rerun, or   *)
(* that returned at its "upload first" guard, shows the blank view.         *)

NoTip == [kind |-> "none", top_categories |-> <<>>, advice |-> ""]

BlankManage ==
    [view_type |-> "", year |-> 0, month |-> "", total_spent |-> Finite(0),
     suggested_savings |-> <<0, 1>>, tip |-> NoTip, top_categories_df |-> <<>>,
     n_cols |-> 0, rendered |-> <<>>, index_error |-> FALSE]

BlankAnalyze ==
    [view_type |-> "", year |-> 0, month |-> "", pie_data |-> <<>>, series |-> <<>>]

BlankPredict ==
    [df_monthly |-> <<>>, future_months |-> <<>>, den |-> 1,
     predicted_spending |-> <<>>, predicted_monthly_savings |-> <<>>,
     predicted_yearly |-> 0, predicted_yearly_savings |-> <<0, 1>>]

\* lines 127, 164, 211: nothing stored, or a stored frame without rows
NothingStored(df) == df.none \/ df.rows = <<>>

----------------------------------------------------------------------------
(* show_upload_page *)

\* lines 113-118 extending the stored frame in place instead of assigning it
UploadFileExtend(file, sal) ==
    LET res == parse_data(file)
    IN  /\ df_spent' = IF df_spent.none \/ res.df.none THEN res.df
                       ELSE Frame(df_spent.rows \o res.df.rows)
        /\ replaced' = (~NothingStored(df_spent) /\ res.df # df_spent)
        /\ uploaded_file' = file
        /\ msgs' = Append(res.msgs,
                          IF ~NothingStored(res.df) THEN "file_uploaded_successfully"
                          ELSE "no_relevant_spending_data")
        /\ salary' = sal
        /\ page' = "Upload"
        /\ manage_view' = BlankManage
        /\ analyze_view' = BlankAnalyze
        /\ predict_view' = BlankPredict

\* lines 113-118: a file is in the uploader; the stored set is assigned once
UploadFile(file, sal) ==
    LET res == parse_data(file)
    IN  /\ df_spent' = res.df
        /\ replaced' = (~NothingStored(df_spent) /\ res.df # df_spent)
        /\ uploaded_file' = file
        /\ msgs' = Append(res.msgs,
                          IF ~NothingStored(res.df) THEN "file_uploaded_successfully"
                          ELSE "no_relevant_spending_data")
        /\ salary' = sal
        /\ page' = "Upload"
        /\ manage_view' = BlankManage
        /\ analyze_view' = BlankAnalyze
        /\ predict_view' = BlankPredict

\* line 113 false: the uploader is empty; only the salary is stored
UploadNothing(sal) ==
    /\ salary' = sal
    /\ page' = "Upload"
    /\ msgs' = <<>>
    /\ manage_view' = BlankManage
    /\ analyze_view' = BlankAnalyze
    /\ predict_view' = BlankPredict
    /\ UNCHANGED <<df_spent, uploaded_file, replaced>>

----------------------------------------------------------------------------
(* show_manage_page *)

\* float inf and float NaN as quotients: no finite quotient has denominator 0
InfQuotient == <<1, 0>>
NaNQuotient == <<0, 0>>

\* line 137: salary * 0.2 if salary > 0 else total_spent * 0.2, as a fraction
suggested_savings(sal, total_spent) ==
    IF sal > 0 THEN <<sal, 5>>
    ELSE IF total_spent.inf = 1 THEN InfQuotient
    ELSE <<total_spent.v, 5>>

\* line 154: (Amount / Amount.sum()) * 100; inf / inf is NaN and x / inf is 0
Percentage(amount, all) ==
    IF all.inf = 0 THEN <<amount.v * 100, all.v>>
    ELSE IF amount.inf = 1 THEN NaNQuotient
    ELSE <<0, 1>>

\* lines 152-154: the grouped totals in the order the sort produced; each row
\* keeps the index label reset_index gave it (its position among the group keys)
top_categories_df(df_filtered, order) ==
    LET grouped == groupby_category_sum(df_filtered)
        all == SumAmount(grouped)
    IN  [k \in 1..Len(grouped) |->
            [label |-> order[k] - 1,
             Category |-> grouped[order[k]].Category,
             Amount |-> grouped[order[k]].Amount,
             Percentage |-> Percentage(grouped[order[k]].Amount, all)]]

\* line 157: the subscript into col_list used for a row of the table
ColumnSubscript(row) == row.label

\* lines 155-158: the metrics drawn before the loop ends or col_list[i] raises
RenderTop(top, n_cols) ==
    LET shown == head(top, 3)
        bad == { k \in 1..Len(shown) : ColumnSubscript(shown[k]) >= n_cols }
        stop == IF bad = {} THEN Len(shown) + 1
                ELSE CHOOSE k \in bad : \A j \in bad : k <= j
    IN  [rendered |-> [k \in 1..(stop - 1) |->
                          [col |-> ColumnSubscript(shown[k]),
                           Category |-> shown[k].Category,
                           Amount |-> shown[k].Amount]],
         index_error |-> bad # {}]

ManageView(rows, sal, scope, order) ==
    LET df_filtered == FilterScope(rows, scope.view_type, scope.year, scope.month)
        total_spent == SumAmount(df_filtered)
        top == top_categories_df(df_filtered, order)
        n_cols == Min2(3, Len(top))
        drawn == RenderTop(top, n_cols)
    IN  [view_type |-> scope.view_type, year |-> scope.year, month |-> scope.month,
         total_spent |-> total_spent,
         suggested_savings |-> suggested_savings(sal, total_spent),
         tip |-> generate_contextual_tip(df_filtered, order),
         top_categories_df |-> top,
         n_cols |-> n_cols,
         rendered |-> drawn.rendered,
         index_error |-> drawn.index_error]

\* lines 127-129
ManageNothing ==
    /\ NothingStored(df_spent)
    /\ page' = "Manage"
    /\ msgs' = <<"please_upload_first">>
    /\ manage_view' = BlankManage
    /\ analyze_view' = BlankAnalyze
    /\ predict_view' = BlankPredict
    /\ UNCHANGED <<df_spent, salary, uploaded_file, replaced>>

\* lines 131-160
ManageScope ==
    /\ ~NothingStored(df_spent)
    /\ \E scope \in Scopes(df_spent.rows) :
         \E order \in DescendingOrders(groupby_category_sum(
                          FilterScope(df_spent.rows, scope.view_type, scope.year, scope.month))) :
            LET view == ManageView(df_spent.rows, salary, scope, order)
            IN  /\ manage_view' = view
                /\ msgs' = IF view.top_categories_df = <<>>
                           THEN <<"no_spending_data_found">> ELSE <<>>
    /\ page' = "Manage"
    /\ analyze_view' = BlankAnalyze
    /\ predict_view' = BlankPredict
    /\ UNCHANGED <<df_spent, salary, uploaded_file, replaced>>

----------------------------------------------------------------------------
(* show_analyze_page *)

\* line 188: groupby('WeekOfMonth')['Amount'].sum(), ascending week
weekly_data(df_filtered) ==
    LET weeks == SortedInts({ r.WeekOfMonth : r \in Range(df_filtered) })
    IN  [i \in 1..Len(weeks) |->
            [key |-> weeks[i],
             Amount |-> SumAmount(SelectSeq(df_filtered, LAMBDA r : r.WeekOfMonth = weeks[i]))]]

\* lines 192-194: groupby('MonthName') reordered by calendar month number
monthly_data(df_filtered) ==
    LET months == SortedInts({ r.Month : r \in Range(df_filtered) })
    IN  [i \in 1..Len(months) |->
            [key |-> months[i],
             Amount |-> SumAmount(SelectSeq(df_filtered, LAMBDA r : r.Month = months[i]))]]

AnalyzeView(rows, scope) ==
    LET df_filtered == FilterScope(rows, scope.view_type, scope.year, scope.month)
    IN  [view_type |-> scope.view_type, year |-> scope.year, month |-> scope.month,
         pie_data |-> groupby_category_sum(df_filtered),
         series |-> IF scope.view_type = "Monthly" THEN weekly_data(df_filtered)
                    ELSE monthly_data(df_filtered)]

\* lines 164-166
AnalyzeNothing ==
    /\ NothingStored(df_spent)
    /\ page' = "Analyze"
    /\ msgs' = <<"please_upload_first">>
    /\ manage_view' = BlankManage
    /\ analyze_view' = BlankAnalyze
    /\ predict_view' = BlankPredict
    /\ UNCHANGED <<df_spent, salary, uploaded_file, replaced>>

\* lines 168-206
AnalyzeScope ==
    /\ ~NothingStored(df_spent)
    /\ \E scope \in Scopes(df_spent.rows) :
          analyze_view' = AnalyzeView(df_spent.rows, scope)
    /\ page' = "Analyze"
    /\ msgs' = <<>>
    /\ manage_view' = BlankManage
    /\ predict_view' = BlankPredict
    /\ UNCHANGED <<df_spent, salary, uploaded_file, replaced>>

----------------------------------------------------------------------------
(* show_predict_page *)

\* line 222: (Year - Year.min()) * 12 + Month
MonthNum(year, month, min_year) == (year - min_year) * 12 + month

\* lines 221-222: groupby(['Year', 'Month'])['Amount'].sum() with MonthNum added
df_monthly(rows) ==
    LET min_year == CHOOSE y \in { r.Year : r \in Range(rows) } :
                        \A r \in Range(rows) : y <= r.Year
        keys == SortedInts({ r.Year * 12 + (r.Month - 1) : r \in Range(rows) })
    IN  [i \in 1..Len(keys) |->
            LET year == keys[i] \div 12
                month == (keys[i] % 12) + 1
            IN  [Year |-> year, Month |-> month,
                 Amount |-> SumAmount(SelectSeq(rows,
                                LAMBDA r : r.Year = year /\ r.Month = month)),
                 MonthNum |-> MonthNum(year, month, min_year)]]

\* line 227: the forecast goes on unless len(X) < 2
EnoughMonths(monthly) == ~(Len(monthly) < 2)

\* sum() of a sequence of integers
RECURSIVE SumInts(_)
SumInts(s) == IF s = <<>> THEN 0 ELSE Head(s) + SumInts(Tail(s))

\* the sums the normal equations of the fit need, of finite monthly totals
SumX(monthly) == SumInts([i \in 1..Len(monthly) |-> monthly[i].MonthNum])
SumY(monthly) == SumInts([i \in 1..Len(monthly) |-> monthly[i].Amount.v])
SumXX(monthly) == SumInts([i \in 1..Len(monthly) |-> monthly[i].MonthNum * monthly[i].MonthNum])
SumXY(monthly) == SumInts([i \in 1..Len(monthly) |-> monthly[i].MonthNum * monthly[i].Amount.v])

\* lines 232-238: the least-squares line through (MonthNum, Amount), evaluated
\* at t; the value is PredictNum(monthly, t) / PredictDen(monthly)
PredictDen(monthly) ==
    LET n == Len(monthly)
    IN  n * (n * SumXX(monthly) - SumX(monthly) * SumX(monthly))

PredictNum(monthly, t) ==
    LET n == Len(monthly)
        A == n * SumXY(monthly) - SumX(monthly) * SumY(monthly)
        D == n * SumXX(monthly) - SumX(monthly) * SumX(monthly)
    IN  A * t * n + SumY(monthly) * D - A * SumX(monthly)

\* line 246 without the clamp at 0
monthly_savings_unclamped(sal, num, den) ==
    IF sal > 0 THEN <<sal * den - num, den>> ELSE <<num, 5 * den>>

\* line 246: max(salary - x, 0) if salary > 0 else x * 0.2, for x = num / den
monthly_savings(sal, num, den) ==
    IF sal > 0 THEN <<Max2(sal * den - num, 0), den>> ELSE <<num, 5 * den>>

\* the number of months forecast (line 237)
Horizon == 12

PredictView(rows, sal) ==
    LET monthly == df_monthly(rows)
        last_month_num == monthly[Len(monthly)].MonthNum
        den == PredictDen(monthly)
        spending == [i \in 1..Horizon |-> PredictNum(monthly, last_month_num + i)]
        savings == [i \in 1..Horizon |-> monthly_savings(sal, spending[i], den)]
    IN  [df_monthly |-> monthly,
         future_months |-> [i \in 1..Horizon |-> last_month_num + i],
         den |-> den,
         predicted_spending |-> spending,
         predicted_monthly_savings |-> savings,
         predicted_yearly |-> SumInts(spending),
         predicted_yearly_savings |->
             <<SumInts([i \in 1..Horizon |-> savings[i][1]]), savings[1][2]>>]

\* lines 211-213
PredictNothing ==
    /\ NothingStored(df_spent)
    /\ page' = "Predict"
    /\ msgs' = <<"please_upload_first">>
    /\ manage_view' = BlankManage
    /\ analyze_view' = BlankAnalyze
    /\ predict_view' = BlankPredict
    /\ UNCHANGED <<df_spent, salary, uploaded_file, replaced>>

\* lines 215-229: fewer than two monthly points
PredictTooShort ==
    /\ ~NothingStored(df_spent)
    /\ ~EnoughMonths(df_monthly(df_spent.rows))
    /\ page' = "Predict"
    /\ msgs' = <<"not_enough_data">>
    /\ manage_view' = BlankManage
    /\ analyze_view' = BlankAnalyze
    /\ predict_view' = [BlankPredict EXCEPT !.df_monthly = df_monthly(df_spent.rows)]
    /\ UNCHANGED <<df_spent, salary, uploaded_file, replaced>>

\* line 233: LinearRegression.fit raises ValueError unless every y is finite
FiniteTotals(monthly) == \A i \in 1..Len(monthly) : monthly[i].Amount.inf = 0

\* lines 215-261: the forecast, or the exception of line 233, which nothing
\* catches: the run ends there with the traceback on the page
PredictForecast ==
    /\ ~NothingStored(df_spent)
    /\ EnoughMonths(df_monthly(df_spent.rows))
    /\ page' = "Predict"
    /\ IF FiniteTotals(df_monthly(df_spent.rows))
       THEN /\ msgs' = <<>>
            /\ predict_view' = PredictView(df_spent.rows, salary)
       ELSE /\ msgs' = <<"uncaught_exception">>
            /\ predict_view' = [BlankPredict EXCEPT !.df_monthly = df_monthly(df_spent.rows)]
    /\ manage_view' = BlankManage
    /\ analyze_view' = BlankAnalyze
    /\ UNCHANGED <<df_spent, salary, uploaded_file, replaced>>

----------------------------------------------------------------------------
(* main: a session from its first run *)

Init ==
    /\ df_spent = None
    /\ salary = 0
    /\ uploaded_file = NoFile
    /\ page = "Upload"
    /\ msgs = <<>>
    /\ manage_view = BlankManage
    /\ analyze_view = BlankAnalyze
    /\ predict_view = BlankPredict
    /\ replaced = FALSE

UploadPage ==
    \/ \E file \in Files, sal \in Salaries : UploadFile(file, sal)
    \/ \E sal \in Salaries : UploadNothing(sal)

ManagePage == ManageNothing \/ ManageScope

AnalyzePage == AnalyzeNothing \/ AnalyzeScope

PredictPage == PredictNothing \/ PredictTooShort \/ PredictForecast

Next == UploadPage \/ ManagePage \/ AnalyzePage \/ PredictPage

Spec == Init /\ [][Next]_vars

----------------------------------------------------------------------------
(* parse_data alone: a statement sits in the uploader and the Upload page   *)
(* runs on it.  Every combination of the cells below occurs in a row.       *)

ParseDateCells == { DateCell(2024, 3, 5), DateCell(2024, 2, 30), TextDate }
ParseAmountCells == { Num(50), Num(0), Num(-20), TextAmount }
ParseCategoryCells == { Groceries, Income, Savings, BlankCell, NotAvailable }

\* rows with an infinite amount
ParseInfRows ==
    { <<DateCell(2024, 3, 5), InfAmount(1), Groceries>>,
      <<DateCell(2024, 3, 5), InfAmount(-1), Groceries>>,
      <<TextDate, InfAmount(1), Savings>> }

ParseRows == (ParseDateCells \X ParseAmountCells \X ParseCategoryCells) \cup ParseInfRows

ParseFiles ==
    [name : {CsvName}, header : {PlainHeader}, rows : SeqsUpTo(ParseRows, MaxParseRows)]
    \cup [name : {UpperName}, header : {PaddedHeader}, rows : SeqsUpTo(ParseRows, 1)]
    \cup [name : {MixedName}, header : {PlainHeader}, rows : SeqsUpTo(ParseRows, 1)]
    \cup [name : {CsvName}, header : BadHeaders, rows : SeqsUpTo(ParseRows, 1)]
    \cup [name : {CsvName}, header : {RepeatedDateHeader},
          rows : { <<>> } \cup { <<WithSecondDate(r)>> : r \in ParseRows }]
    \cup [name : {CsvName}, header : {TwiceDateHeader},
          rows : { <<WithSecondDate(<<TextDate, Num(50), Groceries>>), WithSecondDate(r)>> :
                     r \in ParseRows }]
    \cup [name : {PdfName, MixedPdfName}, header : {PlainHeader}, rows : SeqsUpTo(ParseRows, 1)]
    \cup {EmptyFile}

\* the session before the script ran on the file in the uploader
Fresh(file) ==
    /\ df_spent = None
    /\ salary = 0
    /\ uploaded_file = file
    /\ page = "Upload"
    /\ msgs = <<>>
    /\ manage_view = BlankManage
    /\ analyze_view = BlankAnalyze
    /\ predict_view = BlankPredict
    /\ replaced = FALSE

\* the session right after show_upload_page ran on file with the salary sal
Uploaded(file, sal) ==
    /\ df_spent = parse_data(file).df
    /\ salary = sal
    /\ uploaded_file = file
    /\ page = "Upload"
    /\ msgs = Append(parse_data(file).msgs,
                     IF ~NothingStored(parse_data(file).df) THEN "file_uploaded_successfully"
                     ELSE "no_relevant_spending_data")
    /\ manage_view = BlankManage
    /\ analyze_view = BlankAnalyze
    /\ predict_view = BlankPredict
    /\ replaced = FALSE

InitParse == \E file \in ParseFiles : Fresh(file)

\* the Upload page runs on the file in the uploader, the salary left at its default
ParseUploaded == UploadFile(uploaded_file, 0)

SpecParse == InitParse /\ [][ParseUploaded]_vars

----------------------------------------------------------------------------
(* The Manage page alone, on the sessions left by uploading a statement of  *)
(* spending rows in up to five categories, one blank, one without a tip. *)

ManageRows ==
    { <<DateCell(2024, 3, 5), Num(30), Groceries>>,
      <<DateCell(2024, 3, 20), Num(50), Groceries>>,
      <<DateCell(2024, 3, 5), Num(30), Rent>>,
      <<DateCell(2024, 3, 20), Num(50), Rent>>,
      <<DateCell(2024, 3, 5), Num(30), Restaurants>>,
      <<DateCell(2024, 3, 20), Num(50), Travel>>,
      <<DateCell(2024, 3, 5), Num(30), BlankCell>>,
      <<DateCell(2024, 3, 20), InfAmount(1), Rent>>,
      <<DateCell(2024, 4, 2), Num(30), Groceries>> }

ManageFiles ==
    [name : {CsvName}, header : {PlainHeader}, rows : SeqsUpTo(ManageRows, MaxTx)]

InitManage == \E file \in ManageFiles, sal \in Salaries : Uploaded(file, sal)

SpecManage == InitManage /\ [][ManagePage]_vars

----------------------------------------------------------------------------
(* The Predict page alone, on the sessions left by uploading a statement    *)
(* spread over up to three months of two years.                             *)

PredictRows ==
    { <<d, a, Groceries>> :
        d \in { DateCell(2023, 11, 5), DateCell(2024, 1, 10), DateCell(2024, 2, 3) },
        a \in { Num(30), Num(50) } }
    \cup { <<DateCell(2024, 1, 25), Num(-20), Groceries>>,
           <<DateCell(2024, 1, 25), InfAmount(-1), Groceries>>,
           <<DateCell(2024, 2, 3), InfAmount(1), Groceries>> }

PredictFiles ==
    [name : {CsvName}, header : {PlainHeader}, rows : SeqsUpTo(PredictRows, MaxHist)]
    \cup [name : {PdfName}, header : {PlainHeader}, rows : SeqsUpTo(PredictRows, 1)]

InitPredict == \E file \in PredictFiles, sal \in Salaries : Uploaded(file, sal)

SpecPredict == InitPredict /\ [][PredictPage]_vars

----------------------------------------------------------------------------
(* Properties of the session (Spec). *)

\* C1: whatever was uploaded and whichever pages were visited, the stored
\* transaction set is None or holds only rows with amount > 0 and a category
\* other than Savings and Income.
RetainedRowsAreSpending ==
    \/ df_spent.none
    \/ \A i \in 1..Len(df_spent.rows) :
          /\ gt(df_spent.rows[i].Amount, Finite(0))
          /\ df_spent.rows[i].Category \notin {Savings, Income}

\* a page was rendered on a stored set that replaced an earlier one and from
\* which normalisation removed a row of the statement
RetainedAfterFiltering ==
    /\ page \in {"Manage", "Analyze", "Predict"}
    /\ replaced
    /\ ~NothingStored(df_spent)
    /\ Len(df_spent.rows) < Len(uploaded_file.rows)
    /\ \E i \in 1..Len(uploaded_file.rows) :
          uploaded_file.rows[i][3] = Income \/ uploaded_file.rows[i][2].v < 0

\* parse_data reaches its return df_spent on the file
Readable(file) ==
    /\ FileType(file) = CsvType
    /\ ~NoColumns(file)
    /\ ~MissingColumn(Columns(file.header))
    /\ ~DuplicatedColumn(Columns(file.header))

\* C2: the stored set is exactly the outcome of normalising the most recent
\* upload (None before any upload and after a failed one), and what the Manage
\* and Predict pages show is computed from the rows of that upload alone.
StoredSetIsLatestUpload ==
    /\ uploaded_file = NoFile => df_spent = None
    /\ uploaded_file # NoFile =>
          /\ Readable(uploaded_file) => df_spent = Frame(Normalize(uploaded_file))
          /\ ~Readable(uploaded_file) => df_spent = None
    /\ page = "Manage" /\ manage_view # BlankManage =>
          manage_view.total_spent =
              SumAmount(FilterScope(Normalize(uploaded_file), manage_view.view_type,
                                    manage_view.year, manage_view.month))
    /\ page = "Predict" /\ predict_view.df_monthly # <<>> =>
          predict_view.df_monthly = df_monthly(Normalize(uploaded_file))

\* the Manage page is shown after an upload overwrote an earlier, different set
ManageAfterReplacement ==
    /\ replaced
    /\ page = "Manage"
    /\ manage_view # BlankManage
    /\ gt(manage_view.total_spent, Finite(0))

----------------------------------------------------------------------------
(* Properties of parse_data (SpecParse). *)

\* the file name declares a CSV
DeclaredCsv(file) ==
    /\ Len(file.name) >= 4
    /\ file.name[Len(file.name) - 3] = "."
    /\ file.name[Len(file.name) - 2] \in {"c", "C"}
    /\ file.name[Len(file.name) - 1] \in {"s", "S"}
    /\ file.name[Len(file.name)] \in {"v", "V"}

\* the label is the name with nothing but whitespace before and after it
NamesColumn(label, col) ==
    \E j \in 0..(Len(label) - Len(col)) :
        /\ SubSeq(label, j + 1, j + Len(col)) = col
        /\ \A k \in (1..j) \cup ((j + Len(col) + 1)..Len(label)) : label[k] \in Whitespace

\* the header has the column, whitespace around its name aside
HasColumn(file, col) ==
    \E i \in 1..Len(file.header) : NamesColumn(file.header[i], col)

HasRequiredColumns(file) ==
    HasColumn(file, DateLabel) /\ HasColumn(file, AmountLabel) /\ HasColumn(file, CategoryLabel)

\* the first column of the header that has the name
ColumnAt(file, col) ==
    CHOOSE i \in 1..Len(file.header) :
        /\ NamesColumn(file.header[i], col)
        /\ \A j \in 1..(i - 1) : ~NamesColumn(file.header[j], col)

\* the cell is the text of a date of the calendar
ParseableDate(cell) ==
    /\ cell.iso
    /\ cell.m \in 1..12
    /\ cell.d \in 1..31
    /\ cell.m \in {4, 6, 9, 11} => cell.d <= 30
    /\ cell.m = 2 => cell.d <= (IF cell.y % 4 = 0 /\ (cell.y % 100 # 0 \/ cell.y % 400 = 0)
                                THEN 29 ELSE 28)

\* the cells of a row that the transaction set must contain
SpendingCells(date, amount, category) ==
    /\ ParseableDate(date)
    /\ amount.numeric /\ amount.v > 0
    /\ category \notin {Savings, Income}

\* such a row in a statement of three columns: date, amount, category
SpendingRow(raw) == SpendingCells(raw[1], raw[2], raw[3])

\* the stored set holds, in order, exactly the rows of the statement with a
\* parseable date, a parseable amount > 0 and a category outside {Savings, Income}
StoredRowsAreTheSpendingRows ==
    LET di == ColumnAt(uploaded_file, DateLabel)
        ai == ColumnAt(uploaded_file, AmountLabel)
        ci == ColumnAt(uploaded_file, CategoryLabel)
        wanted == SelectSeq(uploaded_file.rows,
                            LAMBDA raw : SpendingCells(raw[di], raw[ai], raw[ci]))
    IN  /\ Len(df_spent.rows) = Len(wanted)
        /\ \A i \in 1..Len(wanted) :
              /\ df_spent.rows[i].Date = <<wanted[i][di].y, wanted[i][di].m, wanted[i][di].d>>
              /\ ~wanted[i][ai].inf => df_spent.rows[i].Amount = Finite(wanted[i][ai].v)
              /\ wanted[i][ai].inf => df_spent.rows[i].Amount = PosInf
              /\ wanted[i][ci] \notin NaValues => df_spent.rows[i].Category = wanted[i][ci]
              /\ wanted[i][ci] \in NaValues => df_spent.rows[i].Category = NaNCategory

\* C3: for a CSV with the three columns, rows whose date or amount does not
\* parse are dropped and nothing fails: the result is a transaction set, and
\* its rows are, in order, exactly the rows of the statement with a parseable
\* date, a parseable amount > 0 and a category outside {Savings, Income}.
UnparsableRowsAreDropped ==
    msgs # <<>> /\ DeclaredCsv(uploaded_file) /\ HasRequiredColumns(uploaded_file) =>
        /\ ~df_spent.none
        /\ "error_processing_file" \notin Range(msgs)
        /\ StoredRowsAreTheSpendingRows

\* each required name is the name of one column only
OneColumnPerName(file) ==
    \A col \in RequiredColumns :
        Cardinality({ i \in 1..Len(file.header) : NamesColumn(file.header[i], col) }) = 1

\* the same statement for the headers in which no two columns have a required
\* name: there parse_data does not fail and the rows are dropped as stated
UnparsableRowsAreDroppedUnderDistinctNames ==
    msgs # <<>> /\ DeclaredCsv(uploaded_file) /\ OneColumnPerName(uploaded_file) =>
        /\ ~df_spent.none
        /\ "error_processing_file" \notin Range(msgs)
        /\ StoredRowsAreTheSpendingRows

\* a two-row statement was parsed: one row's date or amount does not parse,
\* the other row is spending, and exactly that one is retained
OneRowDroppedOneKept ==
    /\ msgs # <<>>
    /\ DeclaredCsv(uploaded_file) /\ OneColumnPerName(uploaded_file)
    /\ Len(uploaded_file.rows) = 2
    /\ \E i, j \in 1..2 :
          /\ i # j
          /\ ~ParseableDate(uploaded_file.rows[i][1]) \/ ~uploaded_file.rows[i][2].numeric
          /\ SpendingRow(uploaded_file.rows[j])
    /\ ~df_spent.none
    /\ Len(df_spent.rows) = 1

\* C4: when a required column is absent or the declared type is not CSV,
\* parse_data reports an error and returns None (not an empty set), so the
\* stored set holds no row of the file.
FormatErrorsFail ==
    msgs # <<>> /\ (~DeclaredCsv(uploaded_file) \/ ~HasRequiredColumns(uploaded_file)) =>
        /\ df_spent = None
        /\ \/ "unsupported_file_type" \in Range(msgs)
           \/ "error_processing_file" \in Range(msgs)
        /\ "file_uploaded_successfully" \notin Range(msgs)

\* a CSV lacking a required column, whose only row is spending, was rejected
SpendingRowRejectedWithHeader ==
    /\ msgs # <<>>
    /\ DeclaredCsv(uploaded_file) /\ ~HasRequiredColumns(uploaded_file)
    /\ Len(uploaded_file.rows) = 1
    /\ SpendingRow(uploaded_file.rows[1])
    /\ df_spent.none
    /\ "error_processing_file" \in Range(msgs)

----------------------------------------------------------------------------
(* Properties of the forecast (SpecPredict). *)

\* the distinct (year, month) pairs of the stored transaction set
StoredMonths ==
    IF df_spent.none THEN {}
    ELSE { <<df_spent.rows[i].Year, df_spent.rows[i].Month>> : i \in 1..Len(df_spent.rows) }

\* C5: with 0 or 1 distinct (year, month) pairs stored the Predict page
\* reports that there is not enough data and shows no projection, and with 2
\* or more it shows a projection of 12 points; it never ends in an exception.
ForecastNeedsTwoMonths ==
    page = "Predict" =>
        /\ "uncaught_exception" \notin Range(msgs)
        /\ Cardinality(StoredMonths) \in {0, 1} =>
              /\ msgs = <<"not_enough_data">>
              /\ predict_view.predicted_spending = <<>>
        /\ Cardinality(StoredMonths) >= 2 =>
              /\ Len(predict_view.predicted_spending) = 12
              /\ Len(predict_view.predicted_monthly_savings) = 12

\* calendar months from the first row of the monthly table to its i-th row
MonthsSinceFirst(monthly, i) ==
    (monthly[i].Year - monthly[1].Year) * 12 + (monthly[i].Month - monthly[1].Month)

\* C6: the earliest month gets index 1 and every other month 1 plus
\* its calendar distance from the earliest, whatever month the history starts in.
MonthIndexStartsAtOne ==
    page = "Predict" /\ predict_view.df_monthly # <<>> =>
        \A i \in 1..Len(predict_view.df_monthly) :
            predict_view.df_monthly[i].MonthNum = 1 + MonthsSinceFirst(predict_view.df_monthly, i)

\* C9: for each of the 12 predicted months, with x = predicted spending
\* (predicted_spending[i] / den) the predicted savings s (a fraction s[1] / s[2])
\* is max(salary - x, 0) when salary > 0, hence never negative, and 0.2 * x
\* when salary is 0.
SavingsFollowSalary ==
    page = "Predict" /\ predict_view.predicted_spending # <<>> =>
        \A i \in 1..12 :
            LET num == predict_view.predicted_spending[i]
                den == predict_view.den
                s == predict_view.predicted_monthly_savings[i]
            IN  /\ den > 0 /\ s[2] > 0
                /\ salary > 0 /\ salary * den >= num => s[1] * den = (salary * den - num) * s[2]
                /\ salary > 0 /\ salary * den < num => s[1] = 0
                /\ salary > 0 => s[1] >= 0
                /\ salary = 0 => 10 * s[1] * den = 2 * num * s[2]

\* a forecast with a salary in which one month's spending exceeds the salary
\* (savings clamped to 0) and another month's stays below it
SavingsClampedAndNot ==
    /\ page = "Predict"
    /\ salary > 0
    /\ predict_view.predicted_spending # <<>>
    /\ \E i \in 1..12 :
          /\ predict_view.predicted_spending[i] > salary * predict_view.den
          /\ predict_view.predicted_monthly_savings[i][1] = 0
    /\ \E j \in 1..12 :
          /\ predict_view.predicted_spending[j] < salary * predict_view.den
          /\ predict_view.predicted_monthly_savings[j][1] > 0

----------------------------------------------------------------------------
(* Properties of the Manage page (SpecManage). *)


\* C7: the category table is ordered by total descending and categories with
\* equal totals by name ascending, so the two categories the tip names are the
\* first two of that order.
CategoriesRankedWithNameTieBreak ==
    page = "Manage" /\ manage_view # BlankManage =>
        LET t == manage_view.top_categories_df
        IN  /\ \A i, j \in 1..Len(t) :
                  i < j => \/ gt(t[i].Amount, t[j].Amount)
                           \/ /\ t[i].Amount = t[j].Amount
                              /\ str_lt(t[i].Category, t[j].Category)
            /\ manage_view.tip.kind = "focus" =>
                  manage_view.tip.top_categories =
                      [k \in 1..Min2(2, Len(t)) |-> t[k].Category]

\* C8: the per-category totals shown for a scope add up to the scope's total
\* spent, also when rows with a blank Category cell are in the scope.
CategoryTotalsPartitionTotal ==
    page = "Manage" /\ manage_view # BlankManage =>
        SumAmount(manage_view.top_categories_df) = manage_view.total_spent

\* C10: with n >= 1 categories in scope the Manage page draws min(3, n)
\* categories, the k-th ranked one into column k, every subscript within
\* 0..min(3, n)-1, and never indexes past the created columns.
TopCategoriesFillColumnsInRankOrder ==
    page = "Manage" /\ manage_view # BlankManage /\ manage_view.top_categories_df # <<>> =>
        LET n == Len(manage_view.top_categories_df)
        IN  /\ ~manage_view.index_error
            /\ Len(manage_view.rendered) = Min2(3, n)
            /\ \A k \in 1..Len(manage_view.rendered) :
                  /\ manage_view.rendered[k].col = k - 1
                  /\ manage_view.rendered[k].col \in 0..(Min2(3, n) - 1)
                  /\ manage_view.rendered[k].Category = manage_view.top_categories_df[k].Category

====
